---- MODULE Spec2Model ----
(***************************************************************************)
(* News API: read tracking (ArticleController.getById, the in-memory       *)
(* readRateLimit map, ArticleService.createReadLog) and the analytics      *)
(* aggregation pipeline (startServer, checkRedis, runAggregationNow,       *)
(* processAggregation, the BullMQ worker and its repeatable job).          *)
(*                                                                         *)
(* Spec      the server process: startup probe, mode selection, triggers   *)
(*           and aggregation runs over ReadLog / DailyAnalytics.           *)
(* SpecRead  the read path: getById requests, the dedup map and the        *)
(*           fire-and-forget ReadLog writes.                               *)
(* SpecIdem  aggregation runs started one after the other over a fixed     *)
(*           event history, in either mode.                                *)
(* SpecCompact  the read path on a readRateLimit map that earlier readers  *)
(*           have filled to about its cleanup threshold.                   *)
(* SpecArticle  ArticleService.update and softDelete calls by the author   *)
(*           and by another user, interleaved at their awaits.             *)
(* SpecKeys  the rateLimitKey built for pairs of ids.                      *)
(***************************************************************************)
EXTENDS Integers, Sequences, FiniteSets, Bags, TLC

VARIABLES
    now,            \* Date.now() / the database clock, in ms since the epoch
    redisUp,        \* environment: the broker endpoint accepts connections
    pc,             \* position of startServer
    redisAvailable, \* startServer's const redisAvailable: "unset", "true", "false"
    probes,         \* number of checkRedis calls made so far
    workerCreated,  \* createAnalyticsWorker() has run in this process
    repeatRegistered, \* the repeatable job 'aggregate-daily-reads' is on the broker
    intervalSet,    \* setInterval(..., 5 * 60 * 1000) is armed
    repeatDue,      \* the repeatable job's next iteration is waiting on the broker
    manualWaiting,  \* one-off jobs added by triggerManualAggregation, waiting
    runs,           \* the aggregation runs in flight (a bag of run records)
    readLog,        \* table ReadLog: a bag of rows [articleId, readerId, readAt]
    dailyAnalytics, \* table DailyAnalytics: <<articleId, date>> -> viewCount
    console,        \* the last line an aggregation run logged
    failedWindow,   \* (history) `yesterday` of the daily run that failed last with
                    \* no daily run completed since; 0 when there is none
    readRateLimit,  \* the controller's Map: rateLimitKey -> last read timestamp
    otherEntries,   \* the entries of that Map under the keys of readers the model
                    \* does not name, who do not read again: a bag of timestamps
    pending,        \* ReadLog creates issued and not yet settled (a bag)
    errors,         \* 'Failed to create read log' lines (a bag of the lost rows)
    inflight,       \* getById requests awaiting ArticleService.getById
    deleted,        \* table Article: the ids whose deleted is not null
    served,         \* number of getById responses sent
    lastReq,        \* (history) the request the last response answered
    reads,          \* (history) <<userId, articleId>> -> times of its 200 answers
    rowWrites,      \* table Article: id -> number of update() writes applied to the row
    svcPending,     \* update/softDelete calls whose article.update is awaited (a bag)
    svcResult,      \* (history) the update/softDelete call that moved last, its status
    svcCalls,       \* number of update/softDelete calls made
    keys            \* (history) <<userId, articleId>> -> the rateLimitKey built for it

vars == <<now, redisUp, pc, redisAvailable, probes, workerCreated,
          repeatRegistered, intervalSet, repeatDue, manualWaiting, runs,
          readLog, dailyAnalytics, console, failedWindow, readRateLimit,
          otherEntries,
          pending,
          errors, inflight, deleted, served, lastReq, reads,
          rowWrites, svcPending, svcResult, svcCalls, keys>>

schedVars == <<pc, redisAvailable, probes, workerCreated, repeatRegistered,
               intervalSet>>
readVars == <<readRateLimit, otherEntries, pending, errors, inflight, deleted, served,
              lastReq, reads>>
articleVars == <<rowWrites, svcPending, svcResult, svcCalls>>

(***************************************************************************)
(* Bounds of the model.                                                    *)
(***************************************************************************)
MaxDay == 3         \* days 1..MaxDay of the epoch are modelled
MaxLogs == 3        \* rows the ReadLog table may hold
MaxRuns == 2        \* aggregation runs that may be in flight together
MaxJobs == 1        \* one-off jobs that may wait on the broker
MaxReads == 3       \* getById requests made
MaxWindows == 1     \* dedup windows the clock of SpecRead spans
MaxOver == 1        \* entries beyond the cleanup threshold the initial cache of SpecCompact may hold
MaxCalls == 3       \* update and softDelete calls made

(***************************************************************************)
(* Program constants.                                                      *)
(***************************************************************************)
MS_PER_DAY == 86400000
READ_RATE_LIMIT_MS == 10000
CLEANUP_THRESHOLD == 10000

ArticleIds == {"a1", "a2"}
MissingId == "a9"           \* an id no Article row has
UserIds == {"u1"}
NoUser == ""                \* req.user is undefined
Actors == UserIds \cup {NoUser}
NullReader == "null"
AuthorOf(a) == "u1"         \* Article.authorId of the rows of ArticleIds
Callers == UserIds \cup {"u2"}  \* the authorId argument: req.user.userId of an author
NoCall == [op |-> "none", articleId |-> MissingId, authorId |-> NoUser, statusCode |-> 0]

\* The instants the clock of SpecRead takes: the start of each dedup window
\* after the first request time, and one millisecond later.
ReadInstants ==
    { MS_PER_DAY + w * READ_RATE_LIMIT_MS + e : w \in 0..MaxWindows, e \in {0, 1} }

\* The instants the clock of Spec takes: the first and the last millisecond
\* of each modelled day (00:00:00.000 and 23:59:59.999 UTC).
DayInstants == { d * MS_PER_DAY + o : d \in 1..MaxDay, o \in {0, MS_PER_DAY - 1} }

(***************************************************************************)
(* Dates.  A Date is its ms timestamp; an ISO string is modelled by the    *)
(* pair <<whole UTC days since the epoch, ms within the day>> it spells.   *)
(***************************************************************************)
\* variant: new Date(y, m, d) of the local getters, in a zone 3 h east of UTC
LocalDay(t) ==
    LET offset == 3 * 3600000
    IN  ((t + offset) - ((t + offset) % MS_PER_DAY)) - offset

\* new Date(Date.UTC(y, m, d)) of a Date's UTC year, month and date
UTCDay(t) == t - (t % MS_PER_DAY)

toISOString(t) == <<t \div MS_PER_DAY, t % MS_PER_DAY>>

NewDate(iso) == iso[1] * MS_PER_DAY + iso[2]

(***************************************************************************)
(* Tables.                                                                 *)
(***************************************************************************)
RECURSIVE SumCopies(_, _)
SumCopies(S, B) ==
    IF S = {} THEN 0
    ELSE LET r == CHOOSE x \in S : TRUE
         IN  B[r] + SumCopies(S \ {r}, B)

\* number of ReadLog rows of `log` matching articleId a with lo <= readAt < hi
CountReads(log, a, lo, hi) ==
    SumCopies({ r \in DOMAIN log : r.articleId = a /\ r.readAt >= lo /\ r.readAt < hi }, log)

\* prisma.readLog.create: the row gets readAt = now() of the insert
ReadLogRow(a, r) == [articleId |-> a, readerId |-> r, readAt |-> now]

\* variant: update: { viewCount: { increment: count } }
UpsertIncrement(da, g) ==
    LET k == <<g.articleId, g.date>>
    IN  IF k \in DOMAIN da THEN [da EXCEPT ![k] = @ + g.viewCount]
        ELSE da @@ (k :> g.viewCount)

\* prisma.dailyAnalytics.upsert keyed by articleId_date: update sets viewCount,
\* create inserts the row
Upsert(da, g) ==
    LET k == <<g.articleId, g.date>>
    IN  IF k \in DOMAIN da THEN [da EXCEPT ![k] = g.viewCount]
        ELSE da @@ (k :> g.viewCount)

KeyOf(g) == <<g.articleId, g.date>>

(***************************************************************************)
(* runAggregationNow: grouping of all read logs by articleId and UTC day.  *)
(***************************************************************************)
\* the dateKey strings met for article a
DateKeys(log, a) ==
    { toISOString(UTCDay(r.readAt)) : r \in { x \in DOMAIN log : x.articleId = a } }

\* Object.entries(grouped), flattened: one entry per (articleId, dateStr),
\* with date = new Date(dateStr)
GroupAll(log) ==
    { [articleId |-> a, date |-> NewDate(ds),
       viewCount |-> CountReads(log, a, NewDate(ds), NewDate(ds) + MS_PER_DAY)] :
      <<a, ds>> \in UNION { {a2} \X DateKeys(log, a2) : a2 \in ArticleIds } }

(***************************************************************************)
(* processAggregation: groupBy articleId of the rows of yesterday (UTC).   *)
(***************************************************************************)
\* variant: the 24 hours before now in place of the previous calendar day
YesterdayRolling(t) == t - MS_PER_DAY

\* Date.UTC(y, m, getUTCDate() - 1) and Date.UTC(y, m, getUTCDate()) of now
Yesterday(t) == UTCDay(t) - MS_PER_DAY
Today(t) == UTCDay(t)

\* variant: the window is closed at its end (lte: today in place of lt)
GroupDayInclusive(log, yesterday, today) ==
    { [articleId |-> a, date |-> yesterday,
       viewCount |-> CountReads(log, a, yesterday, today + 1)] :
      a \in { x \in ArticleIds : CountReads(log, x, yesterday, today + 1) > 0 } }

\* where: { readAt: { gte: yesterday, lt: today } }, by articleId, _count
GroupDay(log, yesterday, today) ==
    { [articleId |-> a, date |-> yesterday,
       viewCount |-> CountReads(log, a, yesterday, today)] :
      a \in { x \in ArticleIds : CountReads(log, x, yesterday, today) > 0 } }

(***************************************************************************)
(* Aggregation runs.                                                       *)
(***************************************************************************)
InFlight == BagCardinality(runs)

Add(B, e) == B (+) SetToBag({e})
Remove(B, e) == B (-) SetToBag({e})

\* a run just called: its first await (the ReadLog query) is pending
NewRun(kind, by) ==
    [kind |-> kind, by |-> by, phase |-> "query",
     yesterday |-> IF kind = "daily" THEN Yesterday(now) ELSE 0,
     today |-> IF kind = "daily" THEN Today(now) ELSE 0,
     grouped |-> {}, todo |-> {}]

Init ==
    /\ now = MS_PER_DAY
    /\ redisUp \in BOOLEAN
    /\ pc = "probe"
    /\ redisAvailable = "unset"
    /\ probes = 0
    /\ workerCreated = FALSE
    /\ repeatRegistered = FALSE
    /\ intervalSet = FALSE
    /\ repeatDue = FALSE
    /\ manualWaiting = 0
    /\ runs = EmptyBag
    /\ readLog = EmptyBag
    /\ dailyAnalytics = <<>>
    /\ console = "none"
    /\ failedWindow = 0
    /\ readRateLimit = <<>>
    /\ otherEntries = EmptyBag
    /\ pending = EmptyBag
    /\ errors = EmptyBag
    /\ inflight = EmptyBag
    /\ deleted = {}
    /\ served = 0
    /\ lastReq = [userId |-> NoUser, articleId |-> MissingId, status |-> 0]
    /\ reads = [p \in Actors \X ArticleIds |-> <<>>]
    /\ rowWrites = [a \in ArticleIds |-> 0]
    /\ svcPending = EmptyBag
    /\ svcResult = NoCall
    /\ svcCalls = 0
    /\ keys = <<>>

(***************************************************************************)
(* Environment: the broker endpoint, the clock, admitted reads.            *)
(***************************************************************************)
Alive == pc # "exited"

RedisChange ==
    /\ redisUp' = ~redisUp
    /\ UNCHANGED <<now, schedVars, repeatDue, manualWaiting, runs, readLog,
                   dailyAnalytics, console, failedWindow, readVars, articleVars, keys>>

\* Time passes to a later instant.  The repeatable job (cron '0 0 * * *')
\* becomes due at every midnight UTC once it is registered; the broker keeps
\* one next iteration of it.
AdvanceClock(t) ==
    /\ t > now
    /\ now' = t
    /\ repeatDue' = (repeatDue \/ (repeatRegistered /\ UTCDay(t) > UTCDay(now)))
    /\ UNCHANGED <<redisUp, schedVars, manualWaiting, runs, readLog,
                   dailyAnalytics, console, failedWindow, readVars, articleVars, keys>>

\* prisma.readLog.create of an admitted read reaches the table
ReadLogCreate(a, r) ==
    /\ BagCardinality(readLog) < MaxLogs
    /\ readLog' = readLog (+) SetToBag({ReadLogRow(a, r)})
    /\ UNCHANGED <<now, redisUp, schedVars, repeatDue, manualWaiting, runs,
                   dailyAnalytics, console, failedWindow, readVars, articleVars, keys>>

(***************************************************************************)
(* startServer.                                                            *)
(***************************************************************************)
\* checkRedis: true on 'connect'; false on 'error' or when the 2000 ms timer
\* fires first
CheckRedisOutcomes(up) == IF up THEN {"true", "false"} ELSE {"false"}

CheckRedis ==
    /\ pc = "probe"
    /\ \E ok \in CheckRedisOutcomes(redisUp) :
         /\ redisAvailable' = ok
         /\ pc' = IF ok = "true" THEN "queue" ELSE "fallback"
    /\ probes' = probes + 1
    /\ UNCHANGED <<now, redisUp, workerCreated, repeatRegistered, intervalSet,
                   repeatDue, manualWaiting, runs, readLog, dailyAnalytics,
                   console, failedWindow, readVars, articleVars, keys>>

\* variant: the interval of the fallback is armed before the branch
StartQueueBackedWithInterval ==
    /\ pc = "queue"
    /\ workerCreated' = TRUE
    /\ intervalSet' = TRUE
    /\ pc' = "schedule"
    /\ UNCHANGED <<now, redisUp, redisAvailable, probes, repeatRegistered,
                   repeatDue, manualWaiting, runs, readLog, dailyAnalytics,
                   console, failedWindow, readVars, articleVars, keys>>

\* if (redisAvailable): import analytics.job, createAnalyticsWorker(), then
\* the call of scheduleDailyAggregation() whose queue.add is awaited
StartQueueBacked ==
    /\ pc = "queue"
    /\ workerCreated' = TRUE
    /\ pc' = "schedule"
    /\ UNCHANGED <<now, redisUp, redisAvailable, probes, repeatRegistered,
                   intervalSet, repeatDue, manualWaiting, runs, readLog,
                   dailyAnalytics, console, failedWindow, readVars, articleVars, keys>>

\* analyticsQueue.add(..., {repeat}) resolves
ScheduleDone ==
    /\ pc = "schedule"
    /\ redisUp
    /\ repeatRegistered' = TRUE
    /\ pc' = "done"
    /\ UNCHANGED <<now, redisUp, redisAvailable, probes, workerCreated,
                   intervalSet, repeatDue, manualWaiting, runs, readLog,
                   dailyAnalytics, console, failedWindow, readVars, articleVars, keys>>

\* analyticsQueue.add rejects (the probe only opened a TCP connection; the
\* broker may refuse the command or be gone by now):
\* catch (error) { ...; process.exit(1) }
ScheduleFail ==
    /\ pc = "schedule"
    /\ pc' = "exited"
    /\ runs' = EmptyBag
    /\ UNCHANGED <<now, redisUp, redisAvailable, probes, workerCreated,
                   repeatRegistered, intervalSet, repeatDue, manualWaiting,
                   readLog, dailyAnalytics, console, failedWindow, readVars, articleVars, keys>>

\* else: import aggregation.fallback and call runAggregationNow(), awaited
StartFallback ==
    /\ pc = "fallback"
    /\ runs' = Add(runs, NewRun("full", "startup"))
    /\ pc' = "initialRun"
    /\ UNCHANGED <<now, redisUp, redisAvailable, probes, workerCreated,
                   repeatRegistered, intervalSet, repeatDue, manualWaiting,
                   readLog, dailyAnalytics, console, failedWindow, readVars, articleVars, keys>>

\* variant: the callback probes the broker again and moves to the queue when
\* the probe succeeds
TimerTickReprobe ==
    /\ Alive
    /\ intervalSet
    /\ InFlight < MaxRuns
    /\ probes' = probes + 1
    /\ \E ok \in CheckRedisOutcomes(redisUp) :
         IF ok = "true"
         THEN /\ redisAvailable' = "true"
              /\ workerCreated' = TRUE
              /\ UNCHANGED runs
         ELSE /\ runs' = Add(runs, NewRun("full", "timer"))
              /\ UNCHANGED <<redisAvailable, workerCreated>>
    /\ UNCHANGED <<now, redisUp, pc, repeatRegistered, intervalSet, repeatDue,
                   manualWaiting, readLog, dailyAnalytics, console,
                   failedWindow, readVars, articleVars, keys>>

\* variant: the callback returns without a run once a run has failed
TimerTickUnlessFailed ==
    /\ Alive
    /\ intervalSet
    /\ InFlight < MaxRuns
    /\ console # "Full aggregation failed"
    /\ runs' = Add(runs, NewRun("full", "timer"))
    /\ UNCHANGED <<now, redisUp, schedVars, repeatDue, manualWaiting, readLog,
                   dailyAnalytics, console, failedWindow, readVars, articleVars, keys>>

\* the setInterval callback: async () => { await runAggregationNow(); }
TimerTick ==
    /\ Alive
    /\ intervalSet
    /\ InFlight < MaxRuns
    /\ runs' = Add(runs, NewRun("full", "timer"))
    /\ UNCHANGED <<now, redisUp, schedVars, repeatDue, manualWaiting, readLog,
                   dailyAnalytics, console, failedWindow, readVars, articleVars, keys>>

\* A run returns.  The startup run is awaited by startServer, which then arms
\* the interval in the same turn of the event loop.
EndRun(r) ==
    /\ runs' = Remove(runs, r)
    /\ IF r.by = "startup"
       THEN /\ intervalSet' = TRUE
            /\ pc' = "done"
       ELSE UNCHANGED <<intervalSet, pc>>
    /\ UNCHANGED <<redisAvailable, probes, workerCreated, repeatRegistered>>

(***************************************************************************)
(* runAggregationNow.                                                      *)
(***************************************************************************)
\* prisma.readLog.findMany resolves; grouping is synchronous
FullQueryDone(r) ==
    /\ Alive
    /\ r \in DOMAIN runs /\ r.kind = "full" /\ r.phase = "query"
    /\ IF BagCardinality(readLog) = 0
       THEN /\ console' = "No read logs found"
            /\ EndRun(r)
       ELSE /\ runs' = Add(Remove(runs, r), [r EXCEPT !.phase = "upsert",
                                                       !.grouped = GroupAll(readLog),
                                                       !.todo = GroupAll(readLog)])
            /\ UNCHANGED <<console, schedVars>>
    /\ UNCHANGED <<now, redisUp, repeatDue, manualWaiting, readLog,
                   dailyAnalytics, failedWindow, readVars, articleVars, keys>>

\* prisma.readLog.findMany rejects: catch logs, the run returns
FullQueryFail(r) ==
    /\ Alive
    /\ r \in DOMAIN runs /\ r.kind = "full" /\ r.phase = "query"
    /\ console' = "Full aggregation failed"
    /\ EndRun(r)
    /\ UNCHANGED <<now, redisUp, repeatDue, manualWaiting, readLog,
                   dailyAnalytics, failedWindow, readVars, articleVars, keys>>

\* one awaited prisma.dailyAnalytics.upsert resolves; after the last one the
\* run logs 'Aggregation complete' and returns.  The loop follows the key
\* order of `grouped`, which is the row order of a findMany without orderBy:
\* any order of the groups is possible.
FullUpsertOk(r, g) ==
    /\ Alive
    /\ r \in DOMAIN runs /\ r.kind = "full" /\ r.phase = "upsert"
    /\ g \in r.todo
    /\ dailyAnalytics' = Upsert(dailyAnalytics, g)
    /\ IF r.todo = {g}
       THEN /\ console' = "Aggregation complete"
            /\ EndRun(r)
       ELSE /\ runs' = Add(Remove(runs, r), [r EXCEPT !.todo = @ \ {g}])
            /\ UNCHANGED <<console, schedVars>>
    /\ UNCHANGED <<now, redisUp, repeatDue, manualWaiting, readLog, failedWindow,
                   readVars, articleVars, keys>>

\* an upsert rejects: the throw leaves both loops for the catch of the run
FullUpsertFail(r, g) ==
    /\ Alive
    /\ r \in DOMAIN runs /\ r.kind = "full" /\ r.phase = "upsert"
    /\ g \in r.todo
    /\ console' = "Full aggregation failed"
    /\ EndRun(r)
    /\ UNCHANGED <<now, redisUp, repeatDue, manualWaiting, readLog,
                   dailyAnalytics, failedWindow, readVars, articleVars, keys>>

(***************************************************************************)
(* The BullMQ worker, the jobs and processAggregation.                     *)
(***************************************************************************)
\* triggerManualAggregation: a one-off 'aggregate-daily-reads' job is added
TriggerManualAggregation ==
    /\ Alive
    /\ redisUp
    /\ manualWaiting < MaxJobs
    /\ manualWaiting' = manualWaiting + 1
    /\ UNCHANGED <<now, redisUp, schedVars, repeatDue, runs, readLog,
                   dailyAnalytics, console, failedWindow, readVars, articleVars, keys>>

\* the worker (concurrency 1) takes a waiting job and calls processAggregation
WorkerBusy == \E r \in DOMAIN runs : r.by = "job"

WorkerTake ==
    /\ Alive
    /\ workerCreated
    /\ redisUp
    /\ ~WorkerBusy
    /\ InFlight < MaxRuns
    /\ \/ repeatDue /\ repeatDue' = FALSE /\ UNCHANGED manualWaiting
       \/ manualWaiting > 0 /\ manualWaiting' = manualWaiting - 1 /\ UNCHANGED repeatDue
    /\ runs' = Add(runs, NewRun("daily", "job"))
    /\ UNCHANGED <<now, redisUp, schedVars, readLog, dailyAnalytics, console,
                   failedWindow, readVars, articleVars, keys>>

\* prisma.readLog.groupBy resolves
DailyQueryDone(r) ==
    /\ Alive
    /\ r \in DOMAIN runs /\ r.kind = "daily" /\ r.phase = "query"
    /\ LET aggregatedReads == GroupDay(readLog, r.yesterday, r.today)
       IN  IF aggregatedReads = {}
           THEN /\ console' = "Daily aggregation completed"
                /\ failedWindow' = 0
                /\ EndRun(r)
           ELSE /\ runs' = Add(Remove(runs, r), [r EXCEPT !.phase = "upsert",
                                                           !.grouped = aggregatedReads,
                                                           !.todo = aggregatedReads])
                /\ UNCHANGED <<console, failedWindow, schedVars>>
    /\ UNCHANGED <<now, redisUp, repeatDue, manualWaiting, readLog,
                   dailyAnalytics, readVars, articleVars, keys>>

\* variant: the failed job is put back on the queue at once (attempts > 1)
DailyQueryFailRetried(r) ==
    /\ Alive
    /\ r \in DOMAIN runs /\ r.kind = "daily" /\ r.phase = "query"
    /\ console' = "Daily aggregation failed"
    /\ failedWindow' = r.yesterday
    /\ repeatDue' = TRUE
    /\ EndRun(r)
    /\ UNCHANGED <<now, redisUp, manualWaiting, readLog, dailyAnalytics, readVars, articleVars, keys>>

\* prisma.readLog.groupBy rejects: catch logs and rethrows, the job fails
DailyQueryFail(r) ==
    /\ Alive
    /\ r \in DOMAIN runs /\ r.kind = "daily" /\ r.phase = "query"
    /\ console' = "Daily aggregation failed"
    /\ failedWindow' = r.yesterday
    /\ EndRun(r)
    /\ UNCHANGED <<now, redisUp, repeatDue, manualWaiting, readLog,
                   dailyAnalytics, readVars, articleVars, keys>>

DailyUpsertOk(r, g) ==
    /\ Alive
    /\ r \in DOMAIN runs /\ r.kind = "daily" /\ r.phase = "upsert"
    /\ g \in r.todo
    /\ dailyAnalytics' = Upsert(dailyAnalytics, g)
    /\ IF r.todo = {g}
       THEN /\ console' = "Daily aggregation completed"
            /\ failedWindow' = 0
            /\ EndRun(r)
       ELSE /\ runs' = Add(Remove(runs, r), [r EXCEPT !.todo = @ \ {g}])
            /\ UNCHANGED <<console, failedWindow, schedVars>>
    /\ UNCHANGED <<now, redisUp, repeatDue, manualWaiting, readLog, readVars, articleVars, keys>>

DailyUpsertFail(r, g) ==
    /\ Alive
    /\ r \in DOMAIN runs /\ r.kind = "daily" /\ r.phase = "upsert"
    /\ g \in r.todo
    /\ console' = "Daily aggregation failed"
    /\ failedWindow' = r.yesterday
    /\ EndRun(r)
    /\ UNCHANGED <<now, redisUp, repeatDue, manualWaiting, readLog,
                   dailyAnalytics, readVars, articleVars, keys>>

(***************************************************************************)
(* The server process.                                                     *)
(***************************************************************************)
Next ==
    \/ RedisChange
    \/ \E t \in DayInstants : AdvanceClock(t)
    \/ \E a \in ArticleIds : ReadLogCreate(a, NullReader)
    \/ CheckRedis
    \/ StartQueueBacked
    \/ ScheduleDone
    \/ ScheduleFail
    \/ StartFallback
    \/ TimerTick
    \/ TriggerManualAggregation
    \/ WorkerTake
    \/ \E r \in DOMAIN runs : FullQueryDone(r)
    \/ \E r \in DOMAIN runs : FullQueryFail(r)
    \/ \E r \in DOMAIN runs : \E g \in r.todo : FullUpsertOk(r, g)
    \/ \E r \in DOMAIN runs : \E g \in r.todo : FullUpsertFail(r, g)
    \/ \E r \in DOMAIN runs : DailyQueryDone(r)
    \/ \E r \in DOMAIN runs : DailyQueryFail(r)
    \/ \E r \in DOMAIN runs : \E g \in r.todo : DailyUpsertOk(r, g)
    \/ \E r \in DOMAIN runs : \E g \in r.todo : DailyUpsertFail(r, g)

Spec == Init /\ [][Next]_vars

(***************************************************************************)
(* The read path: ArticleController.getById and createReadLog.             *)
(***************************************************************************)
\* The Authorization headers a request may carry: none, one that is not a
\* Bearer header, a Bearer token that jwt.verify rejects, and a valid token of
\* each user (its sub is the user's id).
NoHeader == ""
Headers == {NoHeader, "Basic x", "Bearer bad"} \cup { "Bearer " \o u : u \in UserIds }

\* optionalAuth: req.user.userId is the sub of a verified Bearer token; with
\* no header, another scheme or an invalid token req.user stays undefined
OptionalAuth(h) ==
    IF \E u \in UserIds : h = "Bearer " \o u
    THEN CHOOSE u \in UserIds : h = "Bearer " \o u
    ELSE NoUser

\* variant: the anonymous actor is keyed by a string that is a user's id
ActorKeySentinelInUse(u) == IF u = NoUser THEN "u-1" ELSE u

\* const userId = req.user?.userId || 'guest'
ActorKey(u) == IF u = NoUser THEN "guest" ELSE u

\* variant: the key leaves the reader out
RateLimitKeyArticleOnly(u, a) == "guest" \o "-" \o a

\* `${userId}-${articleId}`
RateLimitKey(u, a) == ActorKey(u) \o "-" \o a

\* readerId: readerId || null
ReaderId(u) == IF u = NoUser THEN NullReader ELSE u

\* variant: the window is closed at its end (>= in place of >)
AdmitInclusive(cache, key, t) ==
    \/ key \notin DOMAIN cache
    \/ cache[key] = 0
    \/ t - cache[key] >= READ_RATE_LIMIT_MS

\* !lastRead || now - lastRead > READ_RATE_LIMIT_MS
Admit(cache, key, t) ==
    \/ key \notin DOMAIN cache
    \/ cache[key] = 0
    \/ t - cache[key] > READ_RATE_LIMIT_MS

\* variant: the timestamp of the admitted read is not stored
MapSetOmitted(cache, key, t) == cache

\* readRateLimit.set(rateLimitKey, now)
MapSet(cache, key, t) ==
    IF key \in DOMAIN cache THEN [cache EXCEPT ![key] = t] ELSE cache @@ (key :> t)

\* readRateLimit.size, of a map whose named entries are `cache`
MapSize(cache) == Cardinality(DOMAIN cache) + BagCardinality(otherEntries)

\* variant: entries older than half a window are removed
StaleHalfWindow(timestamp, t) == timestamp < t - READ_RATE_LIMIT_MS \div 2

\* variant: entries exactly one window old are deleted too (<= cutoff)
StaleInclusive(timestamp, t) == timestamp <= t - READ_RATE_LIMIT_MS

\* const cutoff = now - READ_RATE_LIMIT_MS; if (timestamp < cutoff)
Stale(timestamp, t) == timestamp < t - READ_RATE_LIMIT_MS

\* variant: the map is cleared once it is over the threshold
CleanupClear(cache, t) ==
    IF MapSize(cache) > CLEANUP_THRESHOLD THEN <<>> ELSE cache

\* if (readRateLimit.size > 10000) delete every entry with timestamp < cutoff:
\* what is left of the named entries ...
Cleanup(cache, t) ==
    IF MapSize(cache) > CLEANUP_THRESHOLD
    THEN [k \in { x \in DOMAIN cache : ~Stale(cache[x], t) } |-> cache[k]]
    ELSE cache

\* ... and of the other entries
CleanupOthers(cache, t) ==
    IF MapSize(cache) > CLEANUP_THRESHOLD
    THEN [ts \in { x \in DOMAIN otherEntries : ~Stale(x, t) } |-> otherEntries[ts]]
    ELSE otherEntries

\* variant: deletedAt is not looked at
FindArticleIgnoringDeleted(a) == IF a \notin ArticleIds THEN "null" ELSE "live"

\* ArticleService.getById: prisma.article.findFirst({ where: { id } })
FindArticle(a) ==
    IF a \notin ArticleIds THEN "null"
    ELSE IF a \in deleted THEN "deleted" ELSE "live"

aggVars == <<redisUp, schedVars, repeatDue, manualWaiting, runs, dailyAnalytics,
             console, failedWindow>>

\* a request reaches the handler; the article query is awaited
GetByIdCall(u, a) ==
    /\ served + BagCardinality(inflight) < MaxReads
    /\ inflight' = Add(inflight, [userId |-> u, articleId |-> a])
    /\ UNCHANGED <<now, aggVars, readLog, readRateLimit, otherEntries, pending, errors,
                   deleted, served, lastReq, reads, articleVars, keys>>

\* variant: the timestamp is stored for every read, admitted or dropped
GetByIdResumeSliding(q) ==
    /\ q \in DOMAIN inflight
    /\ inflight' = Remove(inflight, q)
    /\ served' = served + 1
    /\ LET article == FindArticle(q.articleId)
           rateLimitKey == RateLimitKey(q.userId, q.articleId)
       IN  IF article = "null"
           THEN /\ lastReq' = [userId |-> q.userId, articleId |-> q.articleId,
                               status |-> 404]
                /\ UNCHANGED <<readRateLimit, otherEntries, pending, reads>>
           ELSE IF article = "deleted"
           THEN /\ lastReq' = [userId |-> q.userId, articleId |-> q.articleId,
                               status |-> 410]
                /\ UNCHANGED <<readRateLimit, otherEntries, pending, reads>>
           ELSE /\ IF Admit(readRateLimit, rateLimitKey, now)
                   THEN /\ pending' = Add(pending, [articleId |-> q.articleId,
                                                    readerId |-> ReaderId(q.userId)])
                        /\ readRateLimit' =
                             Cleanup(MapSet(readRateLimit, rateLimitKey, now), now)
                        /\ otherEntries' =
                             CleanupOthers(MapSet(readRateLimit, rateLimitKey, now), now)
                   ELSE /\ pending' = pending
                        /\ readRateLimit' =
                             Cleanup(MapSet(readRateLimit, rateLimitKey, now), now)
                        /\ otherEntries' =
                             CleanupOthers(MapSet(readRateLimit, rateLimitKey, now), now)
                /\ lastReq' = [userId |-> q.userId, articleId |-> q.articleId,
                               status |-> 200]
                /\ reads' = [reads EXCEPT ![<<q.userId, q.articleId>>] = Append(@, now)]
    /\ UNCHANGED <<now, aggVars, readLog, errors, deleted, articleVars, keys>>

\* the article query resolves and the rest of the handler runs to its response
GetByIdResume(q) ==
    /\ q \in DOMAIN inflight
    /\ inflight' = Remove(inflight, q)
    /\ served' = served + 1
    /\ LET article == FindArticle(q.articleId)
           rateLimitKey == RateLimitKey(q.userId, q.articleId)
       IN  IF article = "null"
           THEN /\ lastReq' = [userId |-> q.userId, articleId |-> q.articleId,
                               status |-> 404]
                /\ UNCHANGED <<readRateLimit, otherEntries, pending, reads>>
           ELSE IF article = "deleted"
           THEN /\ lastReq' = [userId |-> q.userId, articleId |-> q.articleId,
                               status |-> 410]
                /\ UNCHANGED <<readRateLimit, otherEntries, pending, reads>>
           ELSE /\ IF Admit(readRateLimit, rateLimitKey, now)
                   THEN /\ pending' = Add(pending, [articleId |-> q.articleId,
                                                    readerId |-> ReaderId(q.userId)])
                        /\ readRateLimit' =
                             Cleanup(MapSet(readRateLimit, rateLimitKey, now), now)
                        /\ otherEntries' =
                             CleanupOthers(MapSet(readRateLimit, rateLimitKey, now), now)
                   ELSE /\ pending' = pending
                        /\ readRateLimit' = Cleanup(readRateLimit, now)
                        /\ otherEntries' = CleanupOthers(readRateLimit, now)
                /\ lastReq' = [userId |-> q.userId, articleId |-> q.articleId,
                               status |-> 200]
                /\ reads' = [reads EXCEPT ![<<q.userId, q.articleId>>] = Append(@, now)]
    /\ UNCHANGED <<now, aggVars, readLog, errors, deleted, articleVars, keys>>

\* the create of createReadLog resolves: the row is in the table
ReadLogCreated(w) ==
    /\ w \in DOMAIN pending
    /\ pending' = Remove(pending, w)
    /\ readLog' = Add(readLog, ReadLogRow(w.articleId, w.readerId))
    /\ UNCHANGED <<now, aggVars, readRateLimit, otherEntries, errors, inflight, deleted,
                   served, lastReq, reads, articleVars, keys>>

\* variant: the rejection reaches the handler's catch and the answer is a 500
ReadLogFailedSurfaced(w) ==
    /\ w \in DOMAIN pending
    /\ pending' = Remove(pending, w)
    /\ errors' = Add(errors, w)
    /\ lastReq' = [lastReq EXCEPT !.status = 500]
    /\ UNCHANGED <<now, aggVars, readLog, readRateLimit, otherEntries, inflight, deleted,
                   served, reads, articleVars, keys>>

\* the create rejects: .catch logs 'Failed to create read log'
ReadLogFailed(w) ==
    /\ w \in DOMAIN pending
    /\ pending' = Remove(pending, w)
    /\ errors' = Add(errors, w)
    /\ UNCHANGED <<now, aggVars, readLog, readRateLimit, otherEntries, inflight, deleted,
                   served, lastReq, reads, articleVars, keys>>

\* ArticleService.softDelete by the article's author: deletedAt = new Date()
\* (the handler reads deletedAt only for being null or not)
SoftDelete(a) ==
    /\ a \notin deleted
    /\ deleted' = deleted \cup {a}
    /\ rowWrites' = [rowWrites EXCEPT ![a] = @ + 1]
    /\ UNCHANGED <<now, aggVars, readLog, readRateLimit, otherEntries, pending, errors,
                   inflight, served, lastReq, reads, svcPending, svcResult, svcCalls, keys>>

AdvanceClockRead(t) ==
    /\ t > now
    /\ now' = t
    /\ UNCHANGED <<aggVars, readLog, readVars, articleVars, keys>>

NextRead ==
    \/ \E t \in ReadInstants : AdvanceClockRead(t)
    \/ \E h \in Headers, a \in ArticleIds \cup {MissingId} : GetByIdCall(OptionalAuth(h), a)
    \/ \E q \in DOMAIN inflight : GetByIdResume(q)
    \/ \E w \in DOMAIN pending : ReadLogCreated(w)
    \/ \E w \in DOMAIN pending : ReadLogFailed(w)
    \/ \E a \in ArticleIds : SoftDelete(a)

\* the read path does not touch the broker: one initial state suffices
InitRead == Init /\ redisUp

SpecRead == InitRead /\ [][NextRead]_vars

(***************************************************************************)
(* The read path on a cache near its cleanup threshold: other readers have *)
(* read article a1 before, and their entries are in the map.               *)
(***************************************************************************)
\* the time of the i-th earlier reader's admitted read: just older than one
\* window, exactly one window old, or at the initial instant
ReaderTime(i) ==
    IF i % 3 = 0 THEN MS_PER_DAY - READ_RATE_LIMIT_MS - 1
    ELSE IF i % 3 = 1 THEN MS_PER_DAY - READ_RATE_LIMIT_MS
    ELSE MS_PER_DAY

\* the entries the admitted reads of the earlier readers 1..n have left
UsedCache(n) ==
    [ts \in { ReaderTime(c) : c \in 0..2 } |->
       Cardinality({ i \in 1..n : ReaderTime(i) = ts })]

InitCompact ==
    /\ now = MS_PER_DAY
    /\ redisUp = TRUE
    /\ pc = "probe"
    /\ redisAvailable = "unset"
    /\ probes = 0
    /\ workerCreated = FALSE
    /\ repeatRegistered = FALSE
    /\ intervalSet = FALSE
    /\ repeatDue = FALSE
    /\ manualWaiting = 0
    /\ runs = EmptyBag
    /\ readLog = EmptyBag
    /\ dailyAnalytics = <<>>
    /\ console = "none"
    /\ failedWindow = 0
    /\ readRateLimit = <<>>
    /\ \E n \in (CLEANUP_THRESHOLD - 2)..(CLEANUP_THRESHOLD + MaxOver) :
         otherEntries = UsedCache(n)
    /\ pending = EmptyBag
    /\ errors = EmptyBag
    /\ inflight = EmptyBag
    /\ deleted = {}
    /\ served = 0
    /\ lastReq = [userId |-> NoUser, articleId |-> MissingId, status |-> 0]
    /\ reads = [p \in Actors \X ArticleIds |-> <<>>]
    /\ rowWrites = [a \in ArticleIds |-> 0]
    /\ svcPending = EmptyBag
    /\ svcResult = NoCall
    /\ svcCalls = 0
    /\ keys = <<>>

SpecCompact == InitCompact /\ [][NextRead]_vars

(***************************************************************************)
(* Repeated aggregation over a fixed event history: the process is past    *)
(* its startup in either mode, the tables hold some history, no read       *)
(* arrives, the clock stands still, and runs are started one after the     *)
(* other (a tick or a job only once the previous run has returned).        *)
(***************************************************************************)
IdemNow == 2 * MS_PER_DAY + (MS_PER_DAY - 1)

IdemRows ==
    [articleId : ArticleIds, readerId : {NullReader},
     readAt : { t \in DayInstants : t <= IdemNow }]

IdemLogs == { SetToBag(S) : S \in { T \in SUBSET IdemRows : Cardinality(T) <= MaxLogs } }

\* the stores an earlier run over a shorter history can have left: at most one
\* row, for a key that has reads, holding no more than their number
IdemStores(log) ==
    {<<>>} \cup
    { (KeyOf(g) :> v) : <<g, v>> \in { <<h, n>> \in GroupAll(log) \X (1..MaxLogs) : n <= h.viewCount } }

InitIdem ==
    /\ now = IdemNow
    /\ redisUp = TRUE
    /\ pc = "done"
    /\ probes = 1
    /\ \/ /\ redisAvailable = "false"
          /\ intervalSet = TRUE
          /\ workerCreated = FALSE
          /\ repeatRegistered = FALSE
       \/ /\ redisAvailable = "true"
          /\ intervalSet = FALSE
          /\ workerCreated = TRUE
          /\ repeatRegistered = TRUE
    /\ repeatDue = FALSE
    /\ manualWaiting = 0
    /\ runs = EmptyBag
    /\ readLog \in IdemLogs
    /\ dailyAnalytics \in IdemStores(readLog)
    /\ console = "none"
    /\ failedWindow = 0
    /\ readRateLimit = <<>>
    /\ otherEntries = EmptyBag
    /\ pending = EmptyBag
    /\ errors = EmptyBag
    /\ inflight = EmptyBag
    /\ deleted = {}
    /\ served = 0
    /\ lastReq = [userId |-> NoUser, articleId |-> MissingId, status |-> 0]
    /\ reads = [p \in Actors \X ArticleIds |-> <<>>]
    /\ rowWrites = [a \in ArticleIds |-> 0]
    /\ svcPending = EmptyBag
    /\ svcResult = NoCall
    /\ svcCalls = 0
    /\ keys = <<>>

NextIdem ==
    \/ InFlight = 0 /\ TimerTick
    \/ TriggerManualAggregation
    \/ WorkerTake
    \/ \E r \in DOMAIN runs : FullQueryDone(r)
    \/ \E r \in DOMAIN runs : FullQueryFail(r)
    \/ \E r \in DOMAIN runs : \E g \in r.todo : FullUpsertOk(r, g)
    \/ \E r \in DOMAIN runs : \E g \in r.todo : FullUpsertFail(r, g)
    \/ \E r \in DOMAIN runs : DailyQueryDone(r)
    \/ \E r \in DOMAIN runs : DailyQueryFail(r)
    \/ \E r \in DOMAIN runs : \E g \in r.todo : DailyUpsertOk(r, g)
    \/ \E r \in DOMAIN runs : \E g \in r.todo : DailyUpsertFail(r, g)

SpecIdem == InitIdem /\ [][NextIdem]_vars

(***************************************************************************)
(* The day-scoped aggregation repeated for every day of a history.         *)
(***************************************************************************)
\* the upsert loop of a run over its groups G (their keys are distinct)
RECURSIVE ApplyAll(_, _)
ApplyAll(da, G) ==
    IF G = {} THEN da
    ELSE LET g == CHOOSE x \in G : TRUE
         IN  ApplyAll(Upsert(da, g), G \ {g})

\* the numbers (days since the epoch) of the UTC days that have reads
DaysPresent(log) == { r.readAt \div MS_PER_DAY : r \in DOMAIN log }

\* processAggregation run to completion once for every day of `days`, each
\* time at an instant t of the day after it, starting from the store da
RECURSIVE PerDayStore(_, _, _)
PerDayStore(log, days, da) ==
    IF days = {} THEN da
    ELSE LET d == CHOOSE x \in days : TRUE
             t == (d + 1) * MS_PER_DAY + (MS_PER_DAY - 1)
         IN  PerDayStore(log, days \ {d},
                         ApplyAll(da, GroupDay(log, Yesterday(t), Today(t))))

(***************************************************************************)
(* ArticleService.update and ArticleService.softDelete.  Each awaits       *)
(* prisma.article.findFirst and then prisma.article.update; other calls    *)
(* run between the two.                                                    *)
(***************************************************************************)
\* prisma.article.findFirst({ where: { id: articleId, deletedAt: null } })
FindLive(a) == a \in ArticleIds /\ a \notin deleted

\* the checks both methods make on the row found: the error they return, or
\* 0 when the write goes ahead
CheckOwner(a, authorId) ==
    IF ~FindLive(a) THEN 404
    ELSE IF AuthorOf(a) # authorId THEN 403 ELSE 0

\* findFirst of a call resolves: the call returns its error, or issues
\* prisma.article.update({ where: { id: articleId }, ... }) and awaits it
ServiceFound(op, a, authorId) ==
    /\ svcCalls < MaxCalls
    /\ svcCalls' = svcCalls + 1
    /\ svcResult' = [op |-> op, articleId |-> a, authorId |-> authorId,
                     statusCode |-> CheckOwner(a, authorId)]
    /\ svcPending' = IF CheckOwner(a, authorId) = 0
                     THEN Add(svcPending, [op |-> op, articleId |-> a,
                                           authorId |-> authorId])
                     ELSE svcPending
    /\ UNCHANGED <<now, aggVars, readLog, readRateLimit, otherEntries, pending, errors,
                   inflight, deleted, served, lastReq, reads, rowWrites, keys>>

\* ArticleService.update up to its second await
UpdateFound(a, authorId) == ServiceFound("update", a, authorId)

\* ArticleService.softDelete up to its second await
SoftDeleteFound(a, authorId) == ServiceFound("softDelete", a, authorId)

\* the article.update of an update call resolves: the row is written, the
\* call returns { article: updated }
UpdateWritten(w) ==
    /\ w \in DOMAIN svcPending
    /\ w.op = "update"
    /\ svcPending' = Remove(svcPending, w)
    /\ rowWrites' = [rowWrites EXCEPT ![w.articleId] = @ + 1]
    /\ svcResult' = [op |-> w.op, articleId |-> w.articleId, authorId |-> w.authorId,
                     statusCode |-> 200]
    /\ UNCHANGED <<now, aggVars, readLog, readRateLimit, otherEntries, pending, errors,
                   inflight, deleted, served, lastReq, reads, svcCalls, keys>>

\* the article.update of a softDelete call resolves: deletedAt = new Date()
\* is written, the call returns { success: true }
SoftDeleteWritten(w) ==
    /\ w \in DOMAIN svcPending
    /\ w.op = "softDelete"
    /\ svcPending' = Remove(svcPending, w)
    /\ deleted' = deleted \cup {w.articleId}
    /\ rowWrites' = [rowWrites EXCEPT ![w.articleId] = @ + 1]
    /\ svcResult' = [op |-> w.op, articleId |-> w.articleId, authorId |-> w.authorId,
                     statusCode |-> 200]
    /\ UNCHANGED <<now, aggVars, readLog, readRateLimit, otherEntries, pending, errors,
                   inflight, served, lastReq, reads, svcCalls, keys>>

NextArticle ==
    \/ \E a \in ArticleIds \cup {MissingId}, c \in Callers : UpdateFound(a, c)
    \/ \E w \in DOMAIN svcPending : UpdateWritten(w)
    \/ \E a \in ArticleIds \cup {MissingId}, c \in Callers : SoftDeleteFound(a, c)
    \/ \E w \in DOMAIN svcPending : SoftDeleteWritten(w)

SpecArticle == InitRead /\ [][NextArticle]_vars

(***************************************************************************)
(* The rateLimitKey as a function of the ids.  userId is the sub of a      *)
(* verified token and articleId the id of a row found: both are strings    *)
(* the database generated.                                                 *)
(***************************************************************************)
\* ids of one length, as generated ids are, with '-' inside as UUIDs have
SameLengthUserIds == {"u-1", "u-2"}
SameLengthArticleIds == {"a-1", "a-2"}
\* ids of any length
AnyUserIds == SameLengthUserIds \cup {"u"}
AnyArticleIds == SameLengthArticleIds \cup {"1-a-1"}

\* the handler builds the key of a request by userId (NoUser without a
\* verified token) for articleId
BuildKey(u, a) ==
    /\ <<u, a>> \notin DOMAIN keys
    /\ keys' = keys @@ (<<u, a>> :> RateLimitKey(u, a))
    /\ UNCHANGED <<now, aggVars, readLog, readVars, articleVars>>

NextKeys == \E u \in AnyUserIds \cup {NoUser}, a \in AnyArticleIds : BuildKey(u, a)

SpecKeys == InitRead /\ [][NextKeys]_vars

(***************************************************************************)
(* Properties.                                                             *)
(***************************************************************************)
\* the mode the probe selected
Mode ==
    IF redisAvailable = "unset" THEN "Probing"
    ELSE IF redisAvailable = "true" THEN "QueueBacked" ELSE "InProcessFallback"

CompletedLines == {"Aggregation complete", "Daily aggregation completed"}
FailedLines == {"Full aggregation failed", "Daily aggregation failed"}

\* this step is run r logging its completion line and returning
Completes(r) ==
    /\ r \in DOMAIN runs
    /\ runs' = Remove(runs, r)
    /\ pc' # "exited"
    /\ console' \in CompletedLines

\* C1: at most one aggregation run is in flight at any time.
C1_AtMostOneRun == InFlight <= 1

\* C2: a trigger that fires while a run is executing starts no run (it is
\* skipped): while a run is in flight no step adds a run.
C2_TriggerDuringRunSkipped == [][InFlight >= 1 => InFlight' <= InFlight]_vars

\* C3: a read answered 200 issues a ReadLog create exactly when the dedup map
\* holds no entry for its (actor, article) pair or the entry is more than
\* READ_RATE_LIMIT_MS old; otherwise it issues none.
C3_AdmitIffNoEntryOrOld ==
    [][(served' = served + 1 /\ lastReq'.status = 200) =>
         LET u == lastReq'.userId
             a == lastReq'.articleId
             key == RateLimitKey(u, a)
             w == [articleId |-> a, readerId |-> ReaderId(u)]
         IN  IF key \notin DOMAIN readRateLimit
                \/ now - readRateLimit[key] > READ_RATE_LIMIT_MS
             THEN pending' = Add(pending, w)
             ELSE pending' = pending]_vars

Gap(p) == reads[p][2] - reads[p][1]

\* a second read of a pair exactly one window after the first was dropped
C3_Witness ==
    \E p \in Actors \X ArticleIds :
        /\ Len(reads[p]) = 2
        /\ Gap(p) = READ_RATE_LIMIT_MS
        /\ readRateLimit[RateLimitKey(p[1], p[2])] = reads[p][1]
        /\ BagCardinality(pending) + BagCardinality(readLog) + BagCardinality(errors) = 1

RowOf(p) == [articleId |-> p[2], readerId |-> ReaderId(p[1])]

Persisted(p) ==
    SumCopies({ r \in DOMAIN readLog :
                  r.articleId = p[2] /\ r.readerId = ReaderId(p[1]) }, readLog)
Pending(p) == CopiesIn(RowOf(p), pending)
Failed(p) == CopiesIn(RowOf(p), errors)
Issued(p) == Persisted(p) + Pending(p) + Failed(p)

\* C4 as claimed: once the writes of a pair have settled, two reads of the
\* pair within 10 s leave exactly one row in ReadLog and two reads 10.001 s
\* apart leave two, also when a write failed.
C4_PersistedAsClaimed ==
    \A p \in Actors \X ArticleIds :
        (Len(reads[p]) = 2 /\ Pending(p) = 0) =>
            /\ Gap(p) <= READ_RATE_LIMIT_MS => Persisted(p) = 1
            /\ Gap(p) = READ_RATE_LIMIT_MS + 1 => Persisted(p) = 2

\* C4 amended: two reads of a pair within 10 s issue exactly one ReadLog
\* create and two reads more than 10 s apart issue two; the rows stored are
\* the creates issued less those that failed.
C4_IssuedOncePerWindow ==
    \A p \in Actors \X ArticleIds :
        Len(reads[p]) = 2 =>
            /\ Issued(p) = IF Gap(p) <= READ_RATE_LIMIT_MS THEN 1 ELSE 2
            /\ Pending(p) = 0 => Persisted(p) = Issued(p) - Failed(p)

\* two reads within the window whose only create failed: nothing is stored
C4_Witness ==
    \E p \in Actors \X ArticleIds :
        /\ Len(reads[p]) = 2
        /\ Gap(p) <= READ_RATE_LIMIT_MS
        /\ Failed(p) = 1
        /\ Persisted(p) = 0
        /\ Pending(p) = 0

\* C5: when a run completes, every (article, day) row it covers holds the
\* count the run read.
C5_RowsHoldCountsRead ==
    [][\A r \in DOMAIN runs :
         Completes(r) =>
           \A g \in r.grouped :
               /\ KeyOf(g) \in DOMAIN dailyAnalytics'
               /\ dailyAnalytics'[KeyOf(g)] = g.viewCount]_vars

\* C6: once a run has completed, a further run of the same scope over the
\* same events changes nothing in DailyAnalytics (checked under SpecIdem,
\* where runs follow one another and no read arrives).
C6_Idempotent ==
    [][(console \in CompletedLines) => (dailyAnalytics' = dailyAnalytics)]_vars

\* a later run has upserted part of its groups after an earlier one completed
C6_Witness ==
    /\ console \in CompletedLines
    /\ \E r \in DOMAIN runs :
         /\ r.phase = "upsert"
         /\ r.todo # r.grouped
         /\ \E g \in r.grouped : g.viewCount >= 2

\* C7: when startServer is over, a successful probe has led to QueueBacked
\* (worker created, repeatable job registered, no interval) and a failed
\* probe to InProcessFallback (interval armed, no worker, no job), and the
\* process is in one of the two.
StartupOver == pc \in {"done", "exited"}

C7_ProbeDecidesMode ==
    StartupOver =>
        /\ pc = "done"
        /\ redisAvailable = "true" =>
             workerCreated /\ repeatRegistered /\ ~intervalSet
        /\ redisAvailable = "false" =>
             intervalSet /\ ~workerCreated /\ ~repeatRegistered

\* C8: once the probe has selected a mode it never changes, no second probe
\* is made, and neither strategy is set up later for the other mode.
C8_ModePermanent ==
    [][Mode # "Probing" =>
         /\ Mode' = Mode
         /\ probes' = probes
         /\ intervalSet' => Mode = "InProcessFallback"
         /\ (workerCreated' \/ repeatRegistered') => Mode = "QueueBacked"]_vars

\* the broker is reachable again after InProcessFallback was selected
C8_Witness ==
    /\ Mode = "InProcessFallback"
    /\ pc = "done"
    /\ intervalSet
    /\ redisUp
    /\ probes = 1

\* C9: in QueueBacked mode there is no interval and no full run; in
\* InProcessFallback mode there is no worker, no repeatable job registered
\* by the process and no job-driven run.
C9_StrategiesExclusive ==
    /\ Mode = "QueueBacked" =>
         ~intervalSet /\ \A r \in DOMAIN runs : r.kind # "full"
    /\ Mode = "InProcessFallback" =>
         ~workerCreated /\ ~repeatRegistered /\ \A r \in DOMAIN runs : r.kind # "daily"
    /\ ~(intervalSet /\ workerCreated)

\* a timer run is in flight in fallback mode while a manual job waits on the
\* broker, with no worker to take it
C9_Witness ==
    /\ Mode = "InProcessFallback"
    /\ intervalSet
    /\ manualWaiting > 0
    /\ \E r \in DOMAIN runs : r.by = "timer"

\* the (article, day) keys of UTC day `day` that have reads
WindowKeys(day) ==
    { <<x.articleId, day>> : x \in { y \in DOMAIN readLog : UTCDay(y.readAt) = day } }

\* C10: when the next run after a failed run completes, every counter the
\* failed run was to write is correct: after a failed daily job the rows of
\* the day that job was aggregating, after a failed full run the rows the
\* completing full run read.
C10_NextRunRecovers ==
    [][\A r \in DOMAIN runs :
         Completes(r) =>
           /\ (r.kind = "daily" /\ failedWindow # 0) =>
                \A k \in WindowKeys(failedWindow) :
                    /\ k \in DOMAIN dailyAnalytics'
                    /\ dailyAnalytics'[k] = CountReads(readLog, k[1], k[2], k[2] + MS_PER_DAY)
           /\ (r.kind = "full" /\ console = "Full aggregation failed") =>
                \A g \in r.grouped :
                    /\ KeyOf(g) \in DOMAIN dailyAnalytics'
                    /\ dailyAnalytics'[KeyOf(g)] = g.viewCount]_vars

\* this step is run r returning (the process goes on)
Ends(r) ==
    /\ r \in DOMAIN runs
    /\ runs' = Remove(runs, r)
    /\ pc' # "exited"

\* C11: a run does not stop at a failed upsert: when a run returns, the
\* upsert of every one of its groups has been attempted, so at most the
\* group of its last attempt is still to do.
C11_UpsertFailureDoesNotStopRun ==
    [][\A r \in DOMAIN runs :
         (Ends(r) /\ r.phase = "upsert") => Cardinality(r.todo) <= 1]_vars

\* C12: the outcome of the ReadLog write never affects the response: a read
\* of an existing, not deleted article is answered 200 whatever writes are
\* pending or have failed, the response is sent while the write it issued is
\* still pending (no write settles in the step of the response), a step that
\* settles a write changes no response, and a failed write is only logged.
C12_WriteNeverAffectsResponse ==
    [][/\ (served' = served + 1) =>
            /\ (lastReq'.articleId \in ArticleIds \ deleted) => lastReq'.status = 200
            /\ readLog' = readLog /\ errors' = errors
       /\ (served' = served) => (lastReq' = lastReq /\ reads' = reads)
       /\ (errors' # errors) =>
            /\ \E w \in DOMAIN pending :
                 pending' = Remove(pending, w) /\ errors' = Add(errors, w)
            /\ UNCHANGED <<readLog, readRateLimit, otherEntries, inflight, deleted, served,
                           lastReq, reads>>]_vars

\* two reads answered 200; the write of one has failed, the other's is pending
C12_Witness ==
    /\ served = 2
    /\ lastReq.status = 200
    /\ \E p, q \in Actors \X ArticleIds :
         p # q /\ Len(reads[p]) = 1 /\ Len(reads[q]) = 1
    /\ BagCardinality(errors) = 1
    /\ BagCardinality(pending) = 1

\* C13: the store a full run over a history leaves equals the union of the
\* rows of the day-scoped run made for each UTC day present in the history.
C13_FullEqualsPerDay ==
    (console = "Aggregation complete") =>
        dailyAnalytics = PerDayStore(readLog, DaysPresent(readLog), <<>>)

\* a full run has completed over three reads on two days
C13_Witness ==
    /\ console = "Aggregation complete"
    /\ runs = EmptyBag
    /\ BagCardinality(readLog) = 3
    /\ Cardinality(DaysPresent(readLog)) = 2
    /\ \E k \in DOMAIN dailyAnalytics : dailyAnalytics[k] >= 2

\* the reads of article a whose readAt falls on UTC day number d
ReadsOn(a, d) ==
    SumCopies({ r \in DOMAIN readLog :
                  r.articleId = a /\ r.readAt \div MS_PER_DAY = d }, readLog)

\* C14: buckets are UTC calendar days.  After a full run has completed the
\* store holds, for every article and UTC day with reads, one row dated that
\* day's 00:00 UTC whose viewCount is the number of those reads, and no
\* other row; after a daily run has completed the same holds of the rows of
\* the previous UTC day.
C14_UTCBucketing ==
    /\ (console = "Aggregation complete") =>
         /\ \A a \in ArticleIds, d \in 0..MaxDay :
              IF ReadsOn(a, d) > 0
              THEN /\ <<a, d * MS_PER_DAY>> \in DOMAIN dailyAnalytics
                   /\ dailyAnalytics[<<a, d * MS_PER_DAY>>] = ReadsOn(a, d)
              ELSE <<a, d * MS_PER_DAY>> \notin DOMAIN dailyAnalytics
         /\ \A k \in DOMAIN dailyAnalytics :
              k[2] % MS_PER_DAY = 0 /\ k[2] \div MS_PER_DAY \in 0..MaxDay
    /\ (console = "Daily aggregation completed") =>
         \A a \in ArticleIds :
             LET d == (now \div MS_PER_DAY) - 1
             IN  ReadsOn(a, d) > 0 =>
                   /\ <<a, d * MS_PER_DAY>> \in DOMAIN dailyAnalytics
                   /\ dailyAnalytics[<<a, d * MS_PER_DAY>>] = ReadsOn(a, d)

\* a read in the last millisecond of a day and one in the first of the next,
\* of the same article: after a full run, two rows with viewCount 1
C14_Witness ==
    /\ console = "Aggregation complete"
    /\ \E a \in ArticleIds :
         /\ CopiesIn([articleId |-> a, readerId |-> NullReader,
                      readAt |-> 2 * MS_PER_DAY - 1], readLog) = 1
         /\ CopiesIn([articleId |-> a, readerId |-> NullReader,
                      readAt |-> 2 * MS_PER_DAY], readLog) = 1
         /\ ReadsOn(a, 1) = 1 /\ ReadsOn(a, 2) = 1
         /\ dailyAnalytics[<<a, MS_PER_DAY>>] = 1
         /\ dailyAnalytics[<<a, 2 * MS_PER_DAY>>] = 1

\* C15: in QueueBacked mode a job execution started at time t aggregates the
\* reads of the UTC day before the day of t only: its window is
\* [00:00 UTC of the previous day, 00:00 UTC of the day of t), and every row
\* written in this mode is a row of the window of a running job, holding the
\* number of reads of that article on that day.
C15_JobAggregatesPreviousDayOnly ==
    [][Mode = "QueueBacked" =>
         /\ \A r \in DOMAIN runs' \ DOMAIN runs :
              r.phase = "query" =>
                /\ r.kind = "daily"
                /\ r.today = (now \div MS_PER_DAY) * MS_PER_DAY
                /\ r.yesterday = ((now \div MS_PER_DAY) - 1) * MS_PER_DAY
         /\ \A k \in DOMAIN dailyAnalytics' :
              (k \notin DOMAIN dailyAnalytics \/ dailyAnalytics'[k] # dailyAnalytics[k]) =>
                /\ \E r \in DOMAIN runs :
                     r.kind = "daily" /\ k[2] = r.yesterday /\ r.today <= now
                /\ dailyAnalytics'[k] = ReadsOn(k[1], k[2] \div MS_PER_DAY)]_vars

\* a job has completed and written rows of the previous day while reads of
\* another day have no row
C15_Witness ==
    /\ Mode = "QueueBacked"
    /\ console = "Daily aggregation completed"
    /\ \E k \in DOMAIN dailyAnalytics : k[2] = Yesterday(now)
    /\ \E x \in DOMAIN readLog : <<x.articleId, UTCDay(x.readAt)>> \notin DOMAIN dailyAnalytics

\* C16: in InProcessFallback mode startServer starts one full run right after
\* the mode is chosen; when that run returns, failed or not, the interval is
\* armed; the interval is never cleared and the process never exits; and
\* while it is armed a tick starts a full run, whatever the last run logged
\* (as long as fewer than MaxRuns runs are in flight).
C16_FallbackRunsForever ==
    [][Mode = "InProcessFallback" =>
         /\ (pc = "fallback" /\ pc' # pc) =>
              /\ pc' = "initialRun"
              /\ runs' = Add(runs, [kind |-> "full", by |-> "startup", phase |-> "query",
                                    yesterday |-> 0, today |-> 0,
                                    grouped |-> {}, todo |-> {}])
         /\ \A r \in DOMAIN runs' :
              /\ r.kind = "full"
              /\ r.by = "startup" => (pc' = "initialRun" /\ runs'[r] = 1)
         /\ (pc = "initialRun" /\ pc' # pc) => (pc' = "done" /\ intervalSet')
         /\ intervalSet => (intervalSet' /\ pc' = "done")
         /\ (intervalSet /\ InFlight < MaxRuns) => ENABLED TimerTick]_vars

\* the startup run failed, the interval is armed and a timer run is in flight
C16_Witness ==
    /\ Mode = "InProcessFallback"
    /\ pc = "done"
    /\ intervalSet
    /\ console = "Full aggregation failed"
    /\ dailyAnalytics = <<>>
    /\ \E r \in DOMAIN runs : r.by = "timer" /\ r.phase = "upsert"

\* C17: every request without a verified token, whatever header it carries,
\* is keyed 'guest'; two such reads of one article within the window issue
\* one write; and the first read of an article by each reader, anonymous or
\* authenticated, is admitted whatever the other has read.
C17_AnonymousShareOneKey ==
    /\ \A h \in Headers, a \in ArticleIds :
         OptionalAuth(h) = NoUser => RateLimitKey(OptionalAuth(h), a) = "guest-" \o a
    /\ \A a \in ArticleIds :
         (Len(reads[<<NoUser, a>>]) = 2 /\ Gap(<<NoUser, a>>) <= READ_RATE_LIMIT_MS) =>
             Issued(<<NoUser, a>>) = 1
    /\ \A p \in Actors \X ArticleIds : Len(reads[p]) >= 1 => Issued(p) >= 1

\* an anonymous and an authenticated read of one article within the window,
\* both admitted
C17_Witness ==
    \E a \in ArticleIds, u \in UserIds :
        /\ Len(reads[<<NoUser, a>>]) = 1 /\ Len(reads[<<u, a>>]) = 1
        /\ reads[<<NoUser, a>>][1] - reads[<<u, a>>][1] \in 0..READ_RATE_LIMIT_MS
        /\ Issued(<<NoUser, a>>) = 1 /\ Issued(<<u, a>>) = 1
        /\ DOMAIN readRateLimit = {"guest-" \o a, u \o "-" \o a}

\* a timestamp within the dedup window at time t
InWindow(timestamp, t) == t - timestamp <= READ_RATE_LIMIT_MS

\* C18: requests interleave only at the await of the article query; the
\* rest of the handler is one step.  No step removes or changes an entry of
\* the map that is within the window, be it a cleanup or the admission of
\* another request, and of two reads of a pair at the same instant the
\* second is never admitted.
C18_CacheSafeUnderInterleaving ==
    [][/\ \A k \in DOMAIN readRateLimit :
            InWindow(readRateLimit[k], now') =>
                (k \in DOMAIN readRateLimit' /\ readRateLimit'[k] = readRateLimit[k])
       /\ \A ts \in DOMAIN otherEntries :
            InWindow(ts, now') => CopiesIn(ts, otherEntries') = otherEntries[ts]
       /\ \A p \in Actors \X ArticleIds :
            (/\ reads'[p] # reads[p]
             /\ Len(reads[p]) >= 1
             /\ reads[p][Len(reads[p])] = now) => pending' = pending]_vars

\* two requests of one pair were answered at the same instant, one write was
\* issued, and a cleanup has run on the map without losing the pair's entry
C18_Witness ==
    \E p \in Actors \X ArticleIds :
        /\ Len(reads[p]) = 2
        /\ reads[p][1] = reads[p][2]
        /\ Issued(p) = 1
        /\ BagCardinality(otherEntries) < CLEANUP_THRESHOLD - 2
        /\ RateLimitKey(p[1], p[2]) \in DOMAIN readRateLimit
        /\ readRateLimit[RateLimitKey(p[1], p[2])] = reads[p][1]

\* C19: a read answered 200 whose call leaves the map with more than
\* CLEANUP_THRESHOLD entries (after its own admission, if any) ends with
\* every entry older than the window removed and every other entry kept
\* with its timestamp; when the map holds CLEANUP_THRESHOLD entries or
\* fewer, and in every other step, no entry is removed.
C19_CleanupAboveThreshold ==
    [][IF served' = served + 1 /\ lastReq'.status = 200
       THEN LET key == RateLimitKey(lastReq'.userId, lastReq'.articleId)
                mid == IF pending' # pending
                       THEN [k \in DOMAIN readRateLimit \cup {key} |->
                               IF k = key THEN now ELSE readRateLimit[k]]
                       ELSE readRateLimit
                size == Cardinality(DOMAIN mid) + BagCardinality(otherEntries)
            IN  IF size > CLEANUP_THRESHOLD
                THEN /\ \A k \in DOMAIN mid :
                          IF InWindow(mid[k], now)
                          THEN k \in DOMAIN readRateLimit' /\ readRateLimit'[k] = mid[k]
                          ELSE k \notin DOMAIN readRateLimit'
                     /\ DOMAIN readRateLimit' \subseteq DOMAIN mid
                     /\ \A ts \in DOMAIN otherEntries :
                          CopiesIn(ts, otherEntries') =
                            IF InWindow(ts, now) THEN otherEntries[ts] ELSE 0
                     /\ DOMAIN otherEntries' \subseteq DOMAIN otherEntries
                ELSE readRateLimit' = mid /\ otherEntries' = otherEntries
       ELSE readRateLimit' = readRateLimit /\ otherEntries' = otherEntries]_vars

\* a cleanup has run at the initial instant: the entries older than the
\* window are gone, those exactly one window old and the newer ones remain
C19_Witness ==
    /\ lastReq.status = 200
    /\ now = MS_PER_DAY
    /\ CopiesIn(MS_PER_DAY - READ_RATE_LIMIT_MS - 1, otherEntries) = 0
    /\ CopiesIn(MS_PER_DAY - READ_RATE_LIMIT_MS, otherEntries) > 0
    /\ CopiesIn(MS_PER_DAY, otherEntries) > 0
    /\ \E k \in DOMAIN readRateLimit : readRateLimit[k] = MS_PER_DAY

\* C20: a run whose ReadLog query fails logs the failure and returns having
\* written no DailyAnalytics row; its failure starts no run and queues no
\* job, so the next run is the one the next timer tick or job starts.
C20_QueryFailureEndsRun ==
    [][\A r \in DOMAIN runs :
         (Ends(r) /\ r.phase = "query" /\ console' \notin {"No read logs found",
                                                           "Daily aggregation completed"}) =>
           /\ console' \in FailedLines
           /\ r.grouped = {}
           /\ dailyAnalytics' = dailyAnalytics
           /\ manualWaiting' = manualWaiting
           /\ repeatDue' = repeatDue
           /\ intervalSet' = (intervalSet \/ r.by = "startup")]_vars

\* a job over a day that has reads failed on its query: no row, nothing
\* running, nothing queued
C20_Witness ==
    /\ Mode = "QueueBacked"
    /\ console = "Daily aggregation failed"
    /\ WindowKeys(failedWindow) # {}
    /\ dailyAnalytics = <<>>
    /\ runs = EmptyBag
    /\ manualWaiting = 0
    /\ ~repeatDue

\* C21: once started, in either mode, the manual trigger forces a run: in
\* QueueBacked mode with the broker reachable and in InProcessFallback mode
\* it can be invoked with effect, and a manual job it queued belongs to a
\* process that has a worker to execute it.
C21_ManualTriggerRunsInEitherMode ==
    (pc = "done") =>
      /\ (Mode = "QueueBacked" /\ redisUp /\ manualWaiting < MaxJobs)
            => ENABLED TriggerManualAggregation
      /\ (Mode = "InProcessFallback" /\ manualWaiting < MaxJobs)
            => ENABLED TriggerManualAggregation
      /\ (manualWaiting > 0) => workerCreated

\* C23: with ReadLog rows only ever appended, no step of any interleaving of
\* runs removes a DailyAnalytics row or lowers its viewCount.
C23_ViewCountNeverDecreases ==
    [][\A k \in DOMAIN dailyAnalytics :
         /\ k \in DOMAIN dailyAnalytics'
         /\ dailyAnalytics'[k] >= dailyAnalytics[k]]_vars

\* the step is a call's findFirst resolving
Finds == svcCalls' = svcCalls + 1

\* the step, if it is a call returning or going ahead, answers as the two
\* methods are described: 404 for an article that does not exist or is
\* soft-deleted, 403 for a caller other than the author, and no write issued
\* with either
ErrorsWriteNothing ==
    Finds =>
      LET r == svcResult'
      IN  /\ (~FindLive(r.articleId)) => (r.statusCode = 404)
          /\ (FindLive(r.articleId) /\ r.authorId # AuthorOf(r.articleId))
                => (r.statusCode = 403)
          /\ (r.statusCode \in {403, 404})
                => /\ svcPending' = svcPending
                   /\ rowWrites' = rowWrites
                   /\ deleted' = deleted

\* the step writes a row only for its author, and no row that is soft-deleted
DeletedIsFinal ==
    \A a \in ArticleIds :
      /\ (rowWrites'[a] # rowWrites[a]) => (svcResult'.authorId = AuthorOf(a))
      /\ (a \in deleted) => (a \in deleted' /\ rowWrites'[a] = rowWrites[a])

\* C22: update and softDelete change an article only for its owner, with 404
\* and 403 and no write otherwise, and the row of a soft-deleted article is
\* never written again: it stays deleted and no update or second delete
\* reaches it.
C22_OwnerOnlyAndDeletedFinal == [][ErrorsWriteNothing /\ DeletedIsFinal]_vars

\* the time of the last admission among the reads h of one pair, when a read
\* is admitted exactly if it is the first or comes more than
\* READ_RATE_LIMIT_MS after the admission before it
RECURSIVE LastAdmission(_)
LastAdmission(h) ==
    IF Len(h) = 1 THEN h[1]
    ELSE LET prev == LastAdmission(SubSeq(h, 1, Len(h) - 1))
         IN  IF h[Len(h)] - prev > READ_RATE_LIMIT_MS THEN h[Len(h)] ELSE prev

\* C24: a read that is dropped leaves the map entry of its pair as it was,
\* so the window runs from the last admitted read: a read answered 200 is
\* admitted exactly when it is the pair's first or comes more than
\* READ_RATE_LIMIT_MS after the pair's last admission, however many dropped
\* reads came in between.
C24_WindowFromLastAdmission ==
    [][(served' = served + 1 /\ lastReq'.status = 200) =>
         LET u == lastReq'.userId
             a == lastReq'.articleId
             key == RateLimitKey(u, a)
             h == reads[<<u, a>>]
             dropped == pending' = pending
         IN  /\ dropped =>
                  /\ key \in DOMAIN readRateLimit'
                  /\ readRateLimit'[key] = readRateLimit[key]
             /\ dropped <=>
                  /\ h # <<>>
                  /\ now - LastAdmission(h) <= READ_RATE_LIMIT_MS]_vars

\* a pair read at an instant, one window later (dropped) and a millisecond
\* after that: the third read was admitted
C24_Witness ==
    \E p \in Actors \X ArticleIds :
        /\ Len(reads[p]) = 3
        /\ reads[p][2] - reads[p][1] = READ_RATE_LIMIT_MS
        /\ reads[p][3] - reads[p][2] = 1
        /\ Issued(p) = 2
        /\ readRateLimit[RateLimitKey(p[1], p[2])] = reads[p][3]

NeverEvicted ==
    [k \in { RateLimitKey(p[1], p[2]) : p \in { q \in Actors \X ArticleIds : reads[q] # <<>> } } |->
       LastAdmission(reads[CHOOSE p \in Actors \X ArticleIds :
                             reads[p] # <<>> /\ RateLimitKey(p[1], p[2]) = k])]

\* C26: compaction is invisible to admission.  Every read answered 200 is
\* admitted or dropped as it would be against the map that never evicts, and
\* a step evicts an entry only if a read of its pair at that time or at any
\* later time would be admitted with the entry still there.
C26_CompactionInvisible ==
    [][/\ (served' = served + 1 /\ lastReq'.status = 200) =>
            LET key == RateLimitKey(lastReq'.userId, lastReq'.articleId)
            IN  (pending' # pending) <=> Admit(NeverEvicted, key, now)
       /\ \A k \in DOMAIN readRateLimit \ DOMAIN readRateLimit' :
            \A t \in ReadInstants : t >= now' => Admit(readRateLimit, k, t)
       /\ \A ts \in DOMAIN otherEntries :
            CopiesIn(ts, otherEntries') < otherEntries[ts] =>
                \A t \in ReadInstants : t >= now' => t - ts > READ_RATE_LIMIT_MS]_vars

\* the entry of a pair that was read has been evicted, and a request of the
\* pair is waiting for its article
C26_Witness ==
    \E p \in Actors \X ArticleIds :
        /\ Len(reads[p]) = 1
        /\ RateLimitKey(p[1], p[2]) \notin DOMAIN readRateLimit
        /\ [userId |-> p[1], articleId |-> p[2]] \in DOMAIN inflight

\* C27: a read of an article that does not exist is answered 404 and a read
\* of a soft-deleted article 410; either issues no ReadLog create and leaves
\* the dedup map and the table as they were, and a create is issued only by
\* a read answered 200 of an article that exists and is not soft-deleted.
C27_NoWriteForMissingOrDeleted ==
    [][/\ (served' = served + 1) =>
            LET a == lastReq'.articleId
            IN  /\ lastReq'.status =
                     IF a \notin ArticleIds THEN 404 ELSE IF a \in deleted THEN 410 ELSE 200
                /\ (lastReq'.status \in {404, 410}) =>
                     /\ pending' = pending
                     /\ readLog' = readLog
                     /\ readRateLimit' = readRateLimit
                     /\ otherEntries' = otherEntries
                     /\ reads' = reads
       /\ \A w \in DOMAIN pending' :
            CopiesIn(w, pending') > CopiesIn(w, pending) =>
                /\ served' = served + 1
                /\ lastReq'.status = 200
                /\ lastReq'.articleId = w.articleId
                /\ w.articleId \in ArticleIds \ deleted]_vars

\* a pair read an article and was admitted, the article was soft-deleted, the
\* pair read it again within the window and got 410: one create in all, the
\* map entry as the first read left it
C27_Witness ==
    \E p \in Actors \X ArticleIds :
        /\ lastReq = [userId |-> p[1], articleId |-> p[2], status |-> 410]
        /\ Len(reads[p]) = 1
        /\ Issued(p) = 1
        /\ readRateLimit[RateLimitKey(p[1], p[2])] = reads[p][1]
        /\ now - reads[p][1] > READ_RATE_LIMIT_MS

====
